---- MODULE Spec2Model ----
(***************************************************************************)
(* Model of the resolve-path crate (src/src/lib.rs).                       *)
(*                                                                         *)
(* A path is the sequence of its characters.  The alphabet is the          *)
(* separator "/", the tilde "~", the dot ".", an ordinary letter "a" and   *)
(* "X", which stands for a byte sequence that is not valid UTF-8 (so that  *)
(* Path::to_str returns None exactly when the path contains "X").          *)
(* The environment is the HOME directory (dirs::home_dir), the process     *)
(* working directory (std::env::current_dir) and the answer of             *)
(* std::fs::metadata, which is chosen by the environment at each query.    *)
(***************************************************************************)
EXTENDS Naturals, Sequences, FiniteSets

VARIABLES
    home,         \* the environment's home directory: None or Some(path)
    cwd,          \* the process working directory: None (unavailable) or Some(path)
    op,           \* the call made, its name and arguments ("idle" before a call)
    ret,          \* what the call returned
    homeLookups,  \* how many times the last call asked for the home directory
    cwdLookups,   \* how many times the last call asked for the working directory
    metaLog       \* the metadata queries of the last call, each with its answer

vars == <<home, cwd, op, ret, homeLookups, cwdLookups, metaLog>>

----------------------------------------------------------------------------
(* Bounds *)

MaxCandLen == 3
MaxBaseLen == 2
MaxPathLen == 4

----------------------------------------------------------------------------
(* Paths *)

Chars == {"/", "~", ".", "a", "X"}

PathsUpTo(n) == UNION {[1..k -> Chars] : k \in 0..n}

Tilde == <<"~">>

None == [some |-> FALSE, path |-> <<>>]
Some(p) == [some |-> TRUE, path |-> p]

\* The home directories the environment may report, and those handed to
\* resolve_tilde_with_home directly.
HomeDirs == {<<"/", "h">>, <<"/">>, <<"/", "h", "/">>, <<"h">>}
EnvHomes == {None, Some(<<"/", "h">>), Some(<<"h">>)}
EnvCwds == {None, Some(<<"/", "w">>)}

\* std::fs::metadata: Ok(meta) with meta.is_file(), Ok(meta) otherwise, or Err.
MetaOutcomes == {"file", "other", "error"}

----------------------------------------------------------------------------
(* std::path on Unix, as far as the crate uses it *)

is_absolute(p) == Len(p) > 0 /\ p[1] = "/"

is_relative(p) == ~is_absolute(p)

RECURSIVE SplitSep(_, _, _)
SplitSep(p, i, cur) ==
    IF i > Len(p) THEN <<cur>>
    ELSE IF p[i] = "/" THEN <<cur>> \o SplitSep(p, i + 1, <<>>)
    ELSE SplitSep(p, i + 1, Append(cur, p[i]))

RECURSIVE KeepPieces(_, _, _)
KeepPieces(pieces, i, has_root) ==
    IF i > Len(pieces) THEN <<>>
    ELSE IF pieces[i] = <<>> THEN KeepPieces(pieces, i + 1, has_root)
    ELSE IF pieces[i] = <<".">> /\ (has_root \/ i > 1) THEN KeepPieces(pieces, i + 1, has_root)
    ELSE <<pieces[i]>> \o KeepPieces(pieces, i + 1, has_root)

\* Path::components: the root, a leading "." of a relative path, and every
\* non-empty segment other than an interior ".".
Components(p) ==
    (IF is_absolute(p) THEN <<<<"/">>>> ELSE <<>>)
        \o KeepPieces(SplitSep(p, 1, <<>>), 1, is_absolute(p))

\* Path::starts_with compares whole components.
starts_with(p, q) ==
    LET cp == Components(p)
        cq == Components(q)
    IN Len(cq) <= Len(cp) /\ SubSeq(cp, 1, Len(cq)) = cq

\* Path equality (PartialEq for Path) compares components.
PathEq(p, q) == Components(p) = Components(q)

\* Path::to_str is Some exactly when the path is valid UTF-8.
to_str_ok(p) == \A i \in 1..Len(p) : p[i] # "X"

RECURSIVE trim_start_matches(_)
trim_start_matches(s) ==
    IF Len(s) > 0 /\ s[1] = "/" THEN trim_start_matches(Tail(s)) ELSE s

\* Path::join (PathBuf::push): an absolute argument replaces the path, a
\* separator is added unless the path is empty or already ends with one.
join(b, p) ==
    IF is_absolute(p) THEN p
    ELSE IF Len(b) > 0 /\ b[Len(b)] # "/" THEN b \o <<"/">> \o p
    ELSE b \o p

\* Trailing separators and trailing "." segments, which Components skips.
RECURSIVE TrimRight(_)
TrimRight(s) ==
    IF Len(s) > 1 /\ s[Len(s)] = "/" THEN TrimRight(SubSeq(s, 1, Len(s) - 1))
    ELSE IF Len(s) > 1 /\ s[Len(s)] = "." /\ s[Len(s) - 1] = "/"
        THEN TrimRight(SubSeq(s, 1, Len(s) - 1))
    ELSE s

RECURSIVE DropLast(_)
DropLast(s) ==
    IF Len(s) = 0 \/ s[Len(s)] = "/" THEN s ELSE DropLast(SubSeq(s, 1, Len(s) - 1))

\* Path::parent of an absolute path: None for the root, else the path
\* without its last component.
parent(p) ==
    LET t == TrimRight(p)
    IN IF t = <<"/">> THEN None ELSE Some(TrimRight(DropLast(t)))

----------------------------------------------------------------------------
(* Results *)

Ok(owned, p) == [ok |-> TRUE, owned |-> owned, path |-> p, kind |-> "", msg |-> "", panic |-> ""]
Err(kind, msg) == [ok |-> FALSE, owned |-> FALSE, path |-> <<>>, kind |-> kind, msg |-> msg, panic |-> ""]

HomeNotFound == Err("NotFound", "homedir not found")
InvalidBase == Err("InvalidData", "the base path must be able to resolve to an absolute path")
NoParentDirectory == Err("NotFound", "the base path points to a file with no parent directory")
CwdUnavailable == Err("Os", "current_dir failed")

\* A step of the resolver: its result, the home-directory lookups it made
\* and the metadata queries it made.
Done(res, lookups, queries) == [res |-> res, lookups |-> lookups, queries |-> queries]

----------------------------------------------------------------------------
(* The resolvers of lib.rs *)

\* home_dir(): the environment's home directory, if it has one.
home_dir(env_home) == env_home

\* Variant: only one separator after the tilde is stripped before the join.
resolve_tilde_with_home_one_sep(h, path) ==
    IF ~starts_with(path, Tilde) THEN Ok(FALSE, path)
    ELSE IF ~to_str_ok(path) THEN Ok(FALSE, path)
    ELSE LET stripped == Tail(path)
         IN IF stripped = <<>> THEN Ok(TRUE, h)
            ELSE IF stripped[1] = "/" THEN Ok(TRUE, join(h, Tail(stripped)))
            ELSE Ok(FALSE, path)

\* Variant: the text of the path is read without the UTF-8 check.
resolve_tilde_with_home_lossy(h, path) ==
    IF ~starts_with(path, Tilde) THEN Ok(FALSE, path)
    ELSE LET stripped == Tail(path)
         IN IF stripped = <<>> THEN Ok(TRUE, h)
            ELSE IF stripped[1] = "/" THEN Ok(TRUE, join(h, trim_start_matches(stripped)))
            ELSE Ok(FALSE, path)

\* resolve_tilde_with_home(home, path): the result and whether it borrows path.
resolve_tilde_with_home(h, path) ==
    IF ~starts_with(path, Tilde) THEN Ok(FALSE, path)
    ELSE IF ~to_str_ok(path) THEN Ok(FALSE, path)
    ELSE LET stripped == Tail(path)
         IN IF stripped = <<>> THEN Ok(TRUE, h)
            ELSE IF stripped[1] = "/" THEN Ok(TRUE, join(h, trim_start_matches(stripped)))
            ELSE Ok(FALSE, path)

\* resolve_tilde(path): asks for the home directory first, whatever the path.
resolve_tilde(path, env_home) ==
    LET h == home_dir(env_home)
    IN IF ~h.some THEN Done(HomeNotFound, 1, <<>>)
       ELSE Done(resolve_tilde_with_home(h.path, path), 1, <<>>)

\* lib.rs 180-193: the base, made absolute.
absolute_base(base, env_home) ==
    IF is_absolute(base) THEN Done(Ok(TRUE, base), 0, <<>>)
    ELSE LET base_resolved_tilde == resolve_tilde(base, env_home)
         IN IF ~base_resolved_tilde.res.ok THEN base_resolved_tilde
            ELSE IF is_relative(base_resolved_tilde.res.path)
                THEN Done(InvalidBase, base_resolved_tilde.lookups, <<>>)
            ELSE Done(Ok(TRUE, base_resolved_tilde.res.path), base_resolved_tilde.lookups, <<>>)

\* Variant: a failed metadata query is returned to the caller.
base_directory_propagating(abs_base, meta) ==
    IF meta = "error" THEN Err("Os", "metadata failed")
    ELSE IF meta = "file"
    THEN IF parent(abs_base).some THEN Ok(TRUE, parent(abs_base).path) ELSE NoParentDirectory
    ELSE Ok(TRUE, abs_base)

\* Variant: a base that is a file is joined onto as if it were a directory.
base_directory_no_parent(abs_base, meta) ==
    IF meta = "file" /\ ~parent(abs_base).some THEN NoParentDirectory
    ELSE Ok(TRUE, abs_base)

\* lib.rs 196-216: the directory to join onto, given the answer of
\* std::fs::metadata(absolute_base).
base_directory(abs_base, meta) ==
    IF meta = "file"
    THEN IF parent(abs_base).some THEN Ok(TRUE, parent(abs_base).path) ELSE NoParentDirectory
    ELSE Ok(TRUE, abs_base)

\* lib.rs 179-219: a relative candidate without a leading "~" component.
resolve_against_base(base, to_resolve, env_home, meta) ==
    LET ab == absolute_base(base, env_home)
        queries == <<[path |-> ab.res.path, outcome |-> meta]>>
        dir == base_directory(ab.res.path, meta)
    IN IF ~ab.res.ok THEN ab
       ELSE IF ~dir.ok THEN Done(dir, ab.lookups, queries)
       ELSE Done(Ok(TRUE, join(dir.path, to_resolve)), ab.lookups, queries)

\* Variant: no early return for an absolute candidate.
try_resolve_path_no_early_return(base, to_resolve, env_home, meta) ==
    IF starts_with(to_resolve, Tilde) THEN resolve_tilde(to_resolve, env_home)
    ELSE resolve_against_base(base, to_resolve, env_home, meta)

\* try_resolve_path(base, to_resolve), in the environment env_home, with
\* meta the answer the file system gives if it is asked.
try_resolve_path(base, to_resolve, env_home, meta) ==
    IF is_absolute(to_resolve) THEN Done(Ok(FALSE, to_resolve), 0, <<>>)
    ELSE IF starts_with(to_resolve, Tilde) THEN resolve_tilde(to_resolve, env_home)
    ELSE resolve_against_base(base, to_resolve, env_home, meta)

\* std::env::current_dir(): the working directory, or an error.
current_dir(env_cwd) == env_cwd

\* PathResolveExt::try_resolve_in(base)
try_resolve_in(path, base, env_home, meta) == try_resolve_path(base, path, env_home, meta)

\* PathResolveExt::try_resolve(): asks for the working directory first.
try_resolve(path, env_cwd, env_home, meta) ==
    LET c == current_dir(env_cwd)
    IN IF ~c.some THEN Done(CwdUnavailable, 0, <<>>)
       ELSE try_resolve_in(path, c.path, env_home, meta)

\* Result::expect: the value, or a panic with the given message.
expect(r, message) ==
    IF r.res.ok THEN r ELSE [r EXCEPT !.res.panic = message]

\* PathResolveExt::resolve()
resolve(path, env_cwd, env_home, meta) ==
    expect(try_resolve(path, env_cwd, env_home, meta), "should resolve path in current directory")

\* PathResolveExt::resolve_in(base)
resolve_in(path, base, env_home, meta) ==
    expect(try_resolve_in(path, base, env_home, meta), "should resolve path")

----------------------------------------------------------------------------
(* Calls *)

Call(name, path, base, h) == [name |-> name, path |-> path, base |-> base, home |-> h]

Idle == Call("idle", <<>>, <<>>, <<>>)

Init ==
    /\ home \in EnvHomes
    /\ cwd = Some(<<"/", "w">>)
    /\ op = Idle
    /\ ret = Ok(FALSE, <<>>)
    /\ homeLookups = 0
    /\ cwdLookups = 0
    /\ metaLog = <<>>

\* path.try_resolve_in(base)
TryResolveIn ==
    /\ op = Idle
    /\ \E path \in PathsUpTo(MaxCandLen), base \in PathsUpTo(MaxBaseLen), meta \in MetaOutcomes :
        LET r == try_resolve_in(path, base, home, meta)
        IN /\ op' = Call("try_resolve_in", path, base, <<>>)
           /\ ret' = r.res
           /\ homeLookups' = r.lookups
           /\ metaLog' = r.queries
           /\ cwdLookups' = 0
           /\ UNCHANGED <<home, cwd>>

\* resolve_tilde_with_home(h, path)
ResolveTildeWithHome ==
    /\ op = Idle
    /\ \E h \in HomeDirs, path \in PathsUpTo(MaxPathLen) :
        /\ op' = Call("resolve_tilde_with_home", path, <<>>, h)
        /\ ret' = resolve_tilde_with_home(h, path)
        /\ homeLookups' = 0
        /\ metaLog' = <<>>
        /\ cwdLookups' = 0
        /\ UNCHANGED <<home, cwd>>

\* The environment changes the home directory between calls.
SetHome ==
    /\ op = Idle
    /\ \E h \in EnvHomes :
        /\ h # home
        /\ home' = h
        /\ UNCHANGED <<cwd, op, ret, homeLookups, cwdLookups, metaLog>>

\* The caller is done with the result; the library keeps no state of its own.
Return ==
    /\ op # Idle
    /\ op' = Idle
    /\ ret' = Ok(FALSE, <<>>)
    /\ homeLookups' = 0
    /\ cwdLookups' = 0
    /\ metaLog' = <<>>
    /\ UNCHANGED <<home, cwd>>

Next == TryResolveIn \/ ResolveTildeWithHome \/ SetHome \/ Return

Spec == Init /\ [][Next]_vars

----------------------------------------------------------------------------
(* The four methods of PathResolveExt, with the working directory as part   *)
(* of the environment.                                                      *)

InitCwd ==
    /\ home \in EnvHomes
    /\ cwd \in EnvCwds
    /\ op = Idle
    /\ ret = Ok(FALSE, <<>>)
    /\ homeLookups = 0
    /\ cwdLookups = 0
    /\ metaLog = <<>>

\* path.resolve_in(base)
ResolveIn ==
    /\ op = Idle
    /\ \E path \in PathsUpTo(MaxCandLen), base \in PathsUpTo(MaxBaseLen), meta \in MetaOutcomes :
        LET r == resolve_in(path, base, home, meta)
        IN /\ op' = Call("resolve_in", path, base, <<>>)
           /\ ret' = r.res
           /\ homeLookups' = r.lookups
           /\ metaLog' = r.queries
           /\ cwdLookups' = 0
           /\ UNCHANGED <<home, cwd>>

\* path.try_resolve()
TryResolve ==
    /\ op = Idle
    /\ \E path \in PathsUpTo(MaxCandLen), meta \in MetaOutcomes :
        LET r == try_resolve(path, cwd, home, meta)
        IN /\ op' = Call("try_resolve", path, <<>>, <<>>)
           /\ ret' = r.res
           /\ homeLookups' = r.lookups
           /\ metaLog' = r.queries
           /\ cwdLookups' = 1
           /\ UNCHANGED <<home, cwd>>

\* path.resolve()
Resolve ==
    /\ op = Idle
    /\ \E path \in PathsUpTo(MaxCandLen), meta \in MetaOutcomes :
        LET r == resolve(path, cwd, home, meta)
        IN /\ op' = Call("resolve", path, <<>>, <<>>)
           /\ ret' = r.res
           /\ homeLookups' = r.lookups
           /\ metaLog' = r.queries
           /\ cwdLookups' = 1
           /\ UNCHANGED <<home, cwd>>

\* The environment changes the working directory between calls (it is
\* removed, or the process moves).
SetCwd ==
    /\ op = Idle
    /\ \E c \in EnvCwds :
        /\ c # cwd
        /\ cwd' = c
        /\ UNCHANGED <<home, op, ret, homeLookups, cwdLookups, metaLog>>

NextCwd ==
    TryResolveIn \/ ResolveIn \/ TryResolve \/ Resolve \/ SetHome \/ SetCwd \/ Return

SpecCwd == InitCwd /\ [][NextCwd]_vars

----------------------------------------------------------------------------
(* Vocabulary of the properties, read off the characters of a path *)

\* The path's text starts with the character "~".
BeginsWithTilde(p) == Len(p) > 0 /\ p[1] = "~"

\* The path's first segment is exactly "~": a "~" that ends the path or is
\* followed by a separator.
FirstSegmentIsTilde(p) == BeginsWithTilde(p) /\ (Len(p) = 1 \/ p[2] = "/")

\* "~" followed directly by a character that is no separator (~alice).
OtherUserTilde(p) == Len(p) > 1 /\ p[1] = "~" /\ p[2] # "/"

\* The number of separators that follow the leading "~".
SepsAfterTilde(p) ==
    CHOOSE k \in 0..(Len(p) - 1) :
        /\ \A i \in 2..(k + 1) : p[i] = "/"
        /\ (k + 2 <= Len(p) => p[k + 2] # "/")

\* What follows the leading "~" and its separators.
Remainder(p) == SubSeq(p, SepsAfterTilde(p) + 2, Len(p))

\* b, one separator unless b already ends with one, then r: every character
\* of r in place.
Appended(b, r) ==
    IF Len(b) > 0 /\ b[Len(b)] = "/" THEN b \o r
    ELSE IF Len(b) = 0 THEN r
    ELSE b \o <<"/">> \o r

\* The segments a relative path adds to a directory: its components without
\* a leading ".".
AddedSegments(p) ==
    LET c == Components(p)
    IN IF Len(c) > 0 /\ c[1] = <<".">> THEN Tail(c) ELSE c

AllButLast(c) == SubSeq(c, 1, Len(c) - 1)

IsResolveIn == op.name = "try_resolve_in"
IsTildeWithHome == op.name = "resolve_tilde_with_home"

\* The candidate of a call that is relative and has no "~" first segment.
RelativeCandidate == is_relative(op.path) /\ ~FirstSegmentIsTilde(op.path)

\* The base of the call resolves to an absolute path: it is absolute, or it
\* is a readable tilde path and the home directory is there and absolute.
BaseResolves ==
    \/ is_absolute(op.base)
    \/ /\ FirstSegmentIsTilde(op.base)
       /\ to_str_ok(op.base)
       /\ home.some
       /\ is_absolute(home.path)

ResolvedBase ==
    IF is_absolute(op.base) THEN op.base
    ELSE IF Remainder(op.base) = <<>> /\ SepsAfterTilde(op.base) = 0 THEN home.path
    ELSE Appended(home.path, Remainder(op.base))

\* The base stays relative whatever the tilde resolver does with it.
BaseStaysRelative ==
    /\ is_relative(op.base)
    /\ \/ ~FirstSegmentIsTilde(op.base)
       \/ ~to_str_ok(op.base)
       \/ home.some /\ is_relative(home.path)

----------------------------------------------------------------------------
(* Properties *)

\* C1: try_resolve_in of an absolute candidate returns the candidate itself,
\* borrowed, for every base, home directory and file system, without asking
\* for the home directory or for metadata; and an absolute result of a call,
\* resolved again against any base, comes back unchanged.
ReBases == {<<>>, <<"/">>, <<"/", "a">>, <<"~">>, <<"~", "/", "a">>, <<"~", "a">>, <<"a">>, <<"X">>}

C1_AbsolutePassthrough ==
    /\ (IsResolveIn /\ is_absolute(op.path)) =>
           /\ ret = Ok(FALSE, op.path)
           /\ homeLookups = 0
           /\ metaLog = <<>>
    /\ (IsResolveIn /\ ret.ok /\ is_absolute(ret.path)) =>
           \A b \in ReBases, h \in EnvHomes, m \in MetaOutcomes :
               try_resolve_in(ret.path, b, h, m) = Done(Ok(FALSE, ret.path), 0, <<>>)

C1_Witness ==
    /\ IsResolveIn
    /\ is_absolute(op.path)
    /\ Len(op.path) > 1
    /\ is_relative(op.base)
    /\ ~home.some
    /\ ret.ok

\* C2 (as claimed): a candidate that begins with "~", other-user forms
\* included, gets exactly what the tilde resolver returns for it with the
\* live home directory, whatever the base, and no metadata is queried.
C2_TildeCandidateIgnoresBase ==
    (IsResolveIn /\ BeginsWithTilde(op.path)) =>
        /\ ret = resolve_tilde(op.path, home).res
        /\ metaLog = <<>>

\* The expansion C3 describes, for the path of the call: home when the
\* remainder r is empty, and for k >= 1 separators home followed by r, the
\* separators after the tilde gone and r kept character for character.
TildeExpanded ==
    LET k == SepsAfterTilde(op.path)
        r == Remainder(op.path)
    IN /\ r = <<>> => ret.ok /\ PathEq(ret.path, op.home)
       /\ (r = <<>> /\ k = 0) => ret.path = op.home
       /\ (r # <<>> /\ k >= 1) =>
              /\ ret.ok
              /\ ret.path = Appended(op.home, r)
              /\ SubSeq(ret.path, Len(ret.path) - Len(r) + 1, Len(ret.path)) = r

\* C3 (as claimed): for every home directory and every path made of "~", k
\* separators and a remainder r, resolve_tilde_with_home(home, path) is the
\* expansion above.
C3_TildeExpansion ==
    (IsTildeWithHome /\ BeginsWithTilde(op.path)) => TildeExpanded

\* C3 (amended): the same, for every such path that is valid text (UTF-8).
C3_TildeExpansionOfText ==
    (IsTildeWithHome /\ BeginsWithTilde(op.path) /\ to_str_ok(op.path)) => TildeExpanded

C3_Witness ==
    /\ IsTildeWithHome
    /\ BeginsWithTilde(op.path)
    /\ SepsAfterTilde(op.path) = 2
    /\ Remainder(op.path) = <<".">>
    /\ op.home = <<"/", "h">>
    /\ ret.path = <<"/", "h", "/", ".">>

\* C4: resolve_tilde_with_home returns the path unchanged and borrowed when
\* its first segment is not "~", when the "~" is followed directly by a
\* character that is no separator, and when the path is not readable text.
C4_TildeUntouched ==
    (IsTildeWithHome /\ (\/ ~FirstSegmentIsTilde(op.path)
                         \/ OtherUserTilde(op.path)
                         \/ ~to_str_ok(op.path))) =>
        ret = Ok(FALSE, op.path)

C4_Witness ==
    /\ IsTildeWithHome
    /\ FirstSegmentIsTilde(op.path)
    /\ ~to_str_ok(op.path)
    /\ ret = Ok(FALSE, op.path)

\* C5: a relative candidate without a tilde and a base that resolves to an
\* absolute path: metadata is asked once, about the resolved base, and when
\* the answer is not "regular file", or is an error, the call succeeds with
\* the resolved base followed by the candidate: the base's segments, then
\* the candidate's, ".." kept.
C5_JoinOntoDirectory ==
    (IsResolveIn /\ RelativeCandidate /\ BaseResolves) =>
        /\ Len(metaLog) = 1
        /\ metaLog[1].path = ResolvedBase
        /\ metaLog[1].outcome # "file" =>
               /\ ret.ok
               /\ ret.owned
               /\ ret.path = Appended(metaLog[1].path, op.path)
               /\ Components(ret.path) = Components(ResolvedBase) \o AddedSegments(op.path)

C5_Witness ==
    /\ IsResolveIn
    /\ op.path = <<".", ".">>
    /\ op.base = <<"~", "/">>
    /\ home = Some(<<"/", "h">>)
    /\ metaLog = <<[path |-> <<"/", "h", "/">>, outcome |-> "error"]>>
    /\ ret = Ok(TRUE, <<"/", "h", "/", ".", ".">>)

\* C6: the same candidate and base, and metadata says "regular file": the
\* result is the base without its last segment, followed by the candidate;
\* a base with no parent gives NoParentDirectory.
C6_FileAsBase ==
    (IsResolveIn /\ RelativeCandidate /\ BaseResolves) =>
        /\ Len(metaLog) = 1
        /\ metaLog[1].outcome = "file" =>
               IF Len(Components(ResolvedBase)) > 1
               THEN /\ ret.ok
                    /\ ret.owned
                    /\ Components(ret.path) =
                           AllButLast(Components(ResolvedBase)) \o AddedSegments(op.path)
               ELSE ret = NoParentDirectory

C6_Witness ==
    /\ IsResolveIn
    /\ op.path = <<".", "/", "X">>
    /\ op.base = <<"/", "a">>
    /\ metaLog = <<[path |-> <<"/", "a">>, outcome |-> "file"]>>
    /\ ret = Ok(TRUE, <<"/", ".", "/", "X">>)

\* C7 (as claimed): a relative candidate without a tilde and a base that is
\* not absolute and stays so after tilde resolution: InvalidBase, and no
\* metadata query.
C7_InvalidBase ==
    (IsResolveIn /\ RelativeCandidate /\ BaseStaysRelative) =>
        /\ ret = InvalidBase
        /\ metaLog = <<>>

\* C8 (as claimed): HomeNotFound exactly when there is no home directory and
\* a tilde needs expanding; and with no "~" at the start of candidate or
\* base, the outcome is the same whatever the home directory.
LoggedOutcomes == IF metaLog = <<>> THEN MetaOutcomes ELSE {metaLog[1].outcome}

C8_HomeNotFoundOnlyForTilde ==
    IsResolveIn =>
        /\ ret = HomeNotFound <=>
               /\ ~home.some
               /\ \/ FirstSegmentIsTilde(op.path)
                  \/ /\ RelativeCandidate
                     /\ is_relative(op.base)
                     /\ FirstSegmentIsTilde(op.base)
        /\ (~BeginsWithTilde(op.path) /\ ~BeginsWithTilde(op.base)) =>
               \A h \in EnvHomes, m \in LoggedOutcomes :
                   try_resolve_in(op.path, op.base, h, m).res = ret

\* C9 (as claimed): each of the four methods returns an absolute path
\* unchanged and borrowed; it is never altered or rejected.
C9_CwdMethodsPassAbsolute ==
    (op.name \in {"try_resolve", "resolve", "try_resolve_in", "resolve_in"}
        /\ is_absolute(op.path)) =>
        ret = Ok(FALSE, op.path)

\* C10 (as claimed): with an absolute home directory (when there is one),
\* every Ok result of try_resolve_in is an absolute path.
C10_OkIsAbsolute ==
    (IsResolveIn /\ (home.some => is_absolute(home.path)) /\ ret.ok) =>
        is_absolute(ret.path)

====
